---- MODULE Spec2Model ----
(***************************************************************************)
(* Employees + Attendance (streamlit_app.py).                              *)
(*                                                                         *)
(* The program is a Streamlit script that every browser session re-runs on *)
(* each interaction.  Its state is the two Postgres tables                 *)
(* (app.employees, app.attendance_log), the store's clock, and, per        *)
(* session, st.session_state, the URL query string and the transaction a   *)
(* handler has open.  One action is one script run (one button handler),   *)
(* except that a handler which issues two SQL statements is two steps:     *)
(* other sessions' statements can commit between them (READ COMMITTED).    *)
(***************************************************************************)
EXTENDS Integers, FiniteSets, Sequences, TLC

\* ---------------------------------------------------------------- bounds
MaxTime == 2          \* the store's clock now() runs over 0..MaxTime
TicksPerDay == 2      \* clock ticks per calendar day

Sessions == {"s1", "s2"}
EmployeeIds == {"E1", "E2"}
AttendanceIds == {"E1"}     \* the employee the attendance runs select

\* ---------------------------------------------------------------- values
NullTime == -1                 \* SQL NULL in a TIMESTAMPTZ column
NullText == "<NULL>"           \* SQL NULL in a TEXT column / Python None
NoneParam == "<None>"          \* Python None for an absent query parameter

VARIABLES
    employees,      \* app.employees: set of rows
    attendance,     \* app.attendance_log: set of committed rows
    now,            \* the store's clock
    everListed,     \* employee ids some cached employee list can still show
    inflight,       \* per session: the handler that is between two statements
    rendered,       \* what the last script run rendered: "<handler>.<level>" of its
                    \* st.success/info/warning/error message, "page" when it
                    \* rendered the page without one, "exception" when an
                    \* exception escaped the script
    secrets_auth,   \* st.secrets["auth"]
    authed,         \* per session: st.session_state["_authed"]
    method,         \* per session: st.session_state["_method"]
    url_token,      \* per session: the ?token= query parameter
    pw_input        \* per session: the password text input

dbvars == <<employees, attendance, now, everListed, inflight>>
authvars == <<secrets_auth, authed, method, url_token, pw_input>>
vars == <<employees, attendance, now, everListed, inflight, rendered,
          secrets_auth, authed, method, url_token, pw_input>>

\* CURRENT_DATE of a transaction that started at clock value t
DateOf(t) == t \div TicksPerDay

\* mutant: the text is passed as typed, without `or None`
OrNoneKeep(x) == x

\* Python's `x or None` on a text input
OrNone(x) == IF x = "" THEN NullText ELSE x

\* the text typed into the create / edit forms and the status box
FormA == [first_name |-> "Ana", last_name |-> "Lee", email |-> "", department |-> "",
          job_title |-> "", status |-> "active", hire_dt |-> 0]
FormB == [first_name |-> "Ann", last_name |-> "Lee", email |-> "a@x", department |-> "",
          job_title |-> "", status |-> "inactive", hire_dt |-> 0]
FormNoName == [FormA EXCEPT !.first_name = ""]
CreateForms == {FormA, FormNoName}
EditForms == {FormA, FormB}
Notes == {"", "Sick"}

\* ================================================================ AccessGate
\* hashlib.sha256(s).hexdigest(): an injective map into digests, never the
\* string itself
_sha256(s) == "sha256:" \o s

\* str(x) of a configured token: tokens are configured as strings or integers
Str(x) == x.repr
StrTok(r) == [type |-> "str", repr |-> r]
IntTok(r) == [type |-> "int", repr |-> r]

\* truthiness of the query parameter (None and "" are falsy)
Truthy(x) == x \notin {NoneParam, ""}

TokenInputs == {NoneParam, "", "tok1", "7", "bad"}
PasswordInputs == {"", "pw1", "pw2", "wrong"}
AuthKeys == {"tokens", "token", "password_sha256", "password"}

\* the secrets the deployment may configure: any subset of the four keys
SecretsConfigs ==
    { [has |-> h,
       tokens |-> {StrTok("tok1"), IntTok("7")},
       token |-> StrTok("tok1"),
       password_sha256 |-> _sha256("pw2"),
       password |-> "pw1"] : h \in SUBSET AuthKeys }

\* mutant: with "tokens" configured, the single "token" key is not ignored,
\* and without any token configured every token is let in
AllowedTokensLoose(sa) ==
    IF "tokens" \in sa.has THEN {Str(x) : x \in sa.tokens}
    ELSE IF "token" \in sa.has THEN {Str(sa.token)}
    ELSE TokenInputs

allowed_tokens(sa) ==
    IF "tokens" \in sa.has THEN {Str(x) : x \in sa.tokens}
    ELSE IF "token" \in sa.has THEN {Str(sa.token)}
    ELSE {}

\* the `ok` of the Sign in button (hmac.compare_digest is string equality)
PasswordOk(sa, pw) ==
    IF "password_sha256" \in sa.has THEN _sha256(pw) = sa.password_sha256
    ELSE IF "password" \in sa.has THEN pw = sa.password
    ELSE FALSE

\* the token branch of require_login for an unauthenticated session
TokenGrants(sa, tok) == Truthy(tok) /\ tok \in allowed_tokens(sa)

\* A browser opens the app at a URL carrying ?token=tok: a fresh session
\* (empty session_state) whose first script run is require_login.
Open(s, tok) ==
    /\ url_token' = [url_token EXCEPT ![s] = tok]
    /\ pw_input' = [pw_input EXCEPT ![s] = ""]
    /\ authed' = [authed EXCEPT ![s] = TokenGrants(secrets_auth, tok)]
    /\ method' = [method EXCEPT ![s] =
                    IF TokenGrants(secrets_auth, tok) THEN "token" ELSE ""]
    /\ rendered' = (IF TokenGrants(secrets_auth, tok) THEN "page" ELSE "gate.info")
    /\ UNCHANGED <<secrets_auth, dbvars>>

\* The Sign in button with pw typed into the password input.
SignIn(s, pw) ==
    /\ ~authed[s]
    /\ pw_input' = [pw_input EXCEPT ![s] = pw]
    /\ IF TokenGrants(secrets_auth, url_token[s])
         THEN /\ authed' = [authed EXCEPT ![s] = TRUE]
              /\ method' = [method EXCEPT ![s] = "token"]
              /\ rendered' = "page"
         ELSE IF PasswordOk(secrets_auth, pw)
         THEN /\ authed' = [authed EXCEPT ![s] = TRUE]
              /\ method' = [method EXCEPT ![s] = "password"]
              /\ rendered' = "sign_in.success"
         ELSE /\ UNCHANGED <<authed, method>>
              /\ rendered' = "sign_in.error"
    /\ UNCHANGED <<secrets_auth, url_token, dbvars>>

\* The Sign out button: st.session_state.clear(), then st.rerun(), whose run
\* of require_login finds the session unauthenticated and reads the query
\* parameter again.
SignOut(s) ==
    /\ authed[s]
    /\ pw_input' = [pw_input EXCEPT ![s] = ""]
    /\ authed' = [authed EXCEPT ![s] = TokenGrants(secrets_auth, url_token[s])]
    /\ method' = [method EXCEPT ![s] =
                    IF TokenGrants(secrets_auth, url_token[s]) THEN "token" ELSE ""]
    /\ rendered' = (IF TokenGrants(secrets_auth, url_token[s])
                            THEN "page" ELSE "gate.info")
    /\ UNCHANGED <<secrets_auth, url_token, dbvars>>

\* Any other interaction re-runs the script: require_login returns True for
\* an authenticated session and shows the sign-in form otherwise.
Rerun(s) ==
    /\ IF authed[s]
         THEN /\ UNCHANGED <<authed, method>>
              /\ rendered' = "page"
         ELSE /\ authed' = [authed EXCEPT ![s] = TokenGrants(secrets_auth, url_token[s])]
              /\ method' = [method EXCEPT ![s] =
                    IF TokenGrants(secrets_auth, url_token[s]) THEN "token" ELSE method[s]]
              /\ rendered' = (IF TokenGrants(secrets_auth, url_token[s])
                                      THEN "page" ELSE "gate.info")
    /\ UNCHANGED <<secrets_auth, url_token, pw_input, dbvars>>

Idle == [op |-> "idle", eid |-> "E1", note |-> "", form |-> FormA, txdate |-> 0,
         ins |-> FALSE, log_id |-> 0]

InitAuth ==
    /\ secrets_auth \in SecretsConfigs
    /\ authed = [s \in Sessions |-> FALSE]
    /\ method = [s \in Sessions |-> ""]
    /\ url_token = [s \in Sessions |-> NoneParam]
    /\ pw_input = [s \in Sessions |-> ""]
    /\ rendered = "gate.info"
    /\ employees = {}
    /\ attendance = {}
    /\ now = 0
    /\ everListed = {}
    /\ inflight = [s \in Sessions |-> Idle]

NextAuth ==
    \E s \in Sessions :
        \/ \E tok \in TokenInputs : Open(s, tok)
        \/ \E pw \in PasswordInputs : SignIn(s, pw)
        \/ SignOut(s)
        \/ Rerun(s)

SpecAuth == InitAuth /\ [][NextAuth]_vars

\* ================================================================ the store
\* what the store does to the statement(s) of one script run:
\*   "ok"    every statement succeeds
\*   "read"  the bootstrap DDL or a page query, outside any try block, fails
\*           before the run reaches a button's handler
\*   "write" a statement inside the handler's try block fails
Faults == {"ok", "read", "write"}

\* payload = dict(...) of the create and edit forms
Payload(f) ==
    [first_name |-> f.first_name, last_name |-> f.last_name, email |-> OrNone(f.email),
     department |-> OrNone(f.department), job_title |-> OrNone(f.job_title),
     status |-> f.status, hire_date |-> f.hire_dt]

EmployeeRow(e, p) ==
    [employee_id |-> e, first_name |-> p.first_name, last_name |-> p.last_name,
     email |-> p.email, department |-> p.department, job_title |-> p.job_title,
     status |-> p.status, hire_date |-> p.hire_date]

\* get_employee(eid): the rows with that id (empty when absent)
get_employee(e) == {r \in employees : r.employee_id = e}

\* rows of attendance_log that the unique constraint (employee_id, date)
\* makes conflict with an insert of (e, d)
ConflictRows(e, d) == {r \in attendance : r.employee_id = e /\ r.date = d}

\* mutant: the foreign key does not restrict the delete
ReferencingNone(e) == {}

\* the foreign key attendance_log.employee_id -> employees, ON DELETE RESTRICT
Referencing(e) == {r \in attendance : r.employee_id = e}

\* mutant: an insert of a key does not wait for an uncommitted insert of it
PendingInsertNoWait(s, e, d) == FALSE

\* an uncommitted insert of (e, d) by a session other than s: a second insert
\* of the key waits on the unique index until that transaction ends
PendingInsert(s, e, d) ==
    \E o \in Sessions \ {s} :
        /\ inflight[o].op = "set_status" /\ inflight[o].ins
        /\ inflight[o].eid = e /\ inflight[o].txdate = d

\* an uncommitted attendance row of another session references employee e:
\* it holds a key-share lock on the employee row, so a DELETE of it waits
PendingReference(s, e) ==
    \E o \in Sessions \ {s} :
        inflight[o].op = "set_status" /\ inflight[o].ins /\ inflight[o].eid = e

NewRow(id, e, d, cin, st) ==
    [log_id |-> id, employee_id |-> e, date |-> d, check_in_time |-> cin,
     check_out_time |-> NullTime, status |-> st, notes |-> NullText]

\* the row a session's open transaction has inserted and not yet committed
OwnPending(s) ==
    IF inflight[s].ins
      THEN {NewRow(inflight[s].log_id, inflight[s].eid, inflight[s].txdate,
                   NullTime, NullText)}
      ELSE {}

\* committed rows together with the rows open transactions have inserted
AllRows == attendance \cup UNION {OwnPending(s) : s \in Sessions}

\* log_id BIGSERIAL PRIMARY KEY: the sequence hands out a value no row holds.
\* No statement of the program reads log_id, so the model takes the least
\* value no live row holds.
FreshLogId ==
    CHOOSE i \in 1..(Cardinality(AllRows) + 1) :
        /\ \A r \in AllRows : r.log_id # i
        /\ \A j \in 1..(i - 1) : \E r \in AllRows : r.log_id = j

\* mutant: the upsert overwrites the check-in time (EXCLUDED.check_in_time)
CoalesceOverwrite(a, b) == b

\* COALESCE(a, b)
Coalesce(a, b) == IF a # NullTime THEN a ELSE b

\* the gate of line 65 and the single-threaded script run of a session
CanRun(s) == authed[s] /\ inflight[s].op = "idle"

\* the store's clock advances
Tick ==
    /\ now < MaxTime
    /\ now' = now + 1
    /\ UNCHANGED <<employees, attendance, everListed, inflight, rendered,
                   authvars>>

\* ---------------------------------------------------------------- attendance page
\* A run of the Attendance page with no button pressed: the bootstrap DDL and
\* the page queries, none of them inside a try block.
ViewAttendance(s, fault) ==
    /\ CanRun(s)
    /\ fault \in {"ok", "read"}
    /\ rendered' = (IF fault = "read" THEN "exception"
                          ELSE IF employees = {} THEN "attendance.info" ELSE "page")
    /\ UNCHANGED <<dbvars, authvars>>

\* The Check In button for the selected employee e.
CheckIn(s, e, fault) ==
    /\ CanRun(s)
    /\ fault \in {"ok", "write"}
    /\ e \in everListed
    /\ ~PendingInsert(s, e, DateOf(now))
    /\ IF fault = "write" \/ (ConflictRows(e, DateOf(now)) = {} /\ get_employee(e) = {})
         THEN /\ rendered' = "check_in.error"
              /\ UNCHANGED attendance
       ELSE IF ConflictRows(e, DateOf(now)) # {}
         THEN /\ attendance' =
                    (attendance \ ConflictRows(e, DateOf(now))) \cup
                    { [r EXCEPT !.check_in_time = Coalesce(r.check_in_time, now)] :
                        r \in ConflictRows(e, DateOf(now)) }
              /\ rendered' = "check_in.success"
       ELSE /\ attendance' = attendance \cup
                    {NewRow(FreshLogId, e, DateOf(now), now, "Present")}
            /\ rendered' = "check_in.success"
    /\ UNCHANGED <<employees, now, everListed, inflight, authvars>>

\* mutant: the UPDATE lacks "AND check_out_time IS NULL"
OpenRowsAnyRow(e, d) == ConflictRows(e, d)

\* rows the Check Out UPDATE matches
OpenRows(e, d) == {r \in ConflictRows(e, d) : r.check_out_time = NullTime}

\* The Check Out button.
CheckOut(s, e, fault) ==
    /\ CanRun(s)
    /\ fault \in {"ok", "write"}
    /\ e \in everListed
    /\ IF fault = "write"
         THEN /\ rendered' = "check_out.error"
              /\ UNCHANGED attendance
       ELSE /\ attendance' =
                    (attendance \ OpenRows(e, DateOf(now))) \cup
                    { [r EXCEPT !.check_out_time = now] : r \in OpenRows(e, DateOf(now)) }
            /\ rendered' = (IF OpenRows(e, DateOf(now)) # {} THEN "check_out.success"
                                  ELSE "check_out.warning")
    /\ UNCHANGED <<employees, now, everListed, inflight, authvars>>

\* The Set Status/Note button, first statement: INSERT ... ON CONFLICT DO
\* NOTHING.  The transaction starts here; its CURRENT_DATE is fixed.
SetStatusInsert(s, e, note, fault) ==
    /\ CanRun(s)
    /\ fault \in {"ok", "write"}
    /\ e \in everListed
    /\ ~PendingInsert(s, e, DateOf(now))
    /\ IF fault = "write" \/ (ConflictRows(e, DateOf(now)) = {} /\ get_employee(e) = {})
         THEN /\ rendered' = "set_status.error"
              /\ UNCHANGED inflight
       ELSE IF ConflictRows(e, DateOf(now)) # {}
         THEN /\ inflight' = [inflight EXCEPT ![s] =
                    [Idle EXCEPT !.op = "set_status", !.eid = e, !.note = note,
                                 !.txdate = DateOf(now)]]
              /\ UNCHANGED rendered
       ELSE /\ inflight' = [inflight EXCEPT ![s] =
                    [Idle EXCEPT !.op = "set_status", !.eid = e, !.note = note,
                                 !.txdate = DateOf(now), !.ins = TRUE, !.log_id = FreshLogId]]
            /\ UNCHANGED rendered
    /\ UNCHANGED <<employees, attendance, now, everListed, authvars>>

\* rows the second statement of Set Status/Note matches
StatusRows(s) ==
    ConflictRows(inflight[s].eid, inflight[s].txdate) \cup OwnPending(s)

\* The Set Status/Note button, second statement and commit: UPDATE ... SET
\* status, notes.  A failure rolls the transaction back.
SetStatusUpdate(s, fault) ==
    /\ authed[s]
    /\ inflight[s].op = "set_status"
    /\ fault \in {"ok", "write"}
    /\ IF fault = "write"
         THEN /\ rendered' = "set_status.error"
              /\ UNCHANGED attendance
         ELSE /\ attendance' =
                    (attendance \ StatusRows(s)) \cup
                    { [r EXCEPT !.status = OrNone(inflight[s].note),
                                !.notes = OrNone(inflight[s].note)] : r \in StatusRows(s) }
              /\ rendered' = "set_status.success"
    /\ inflight' = [inflight EXCEPT ![s] = Idle]
    /\ UNCHANGED <<employees, now, everListed, authvars>>

\* The Delete today's row button.
DeleteToday(s, e, fault) ==
    /\ CanRun(s)
    /\ fault \in {"ok", "write"}
    /\ e \in everListed
    /\ IF fault = "write"
         THEN /\ rendered' = "delete_today.error"
              /\ UNCHANGED attendance
       ELSE /\ attendance' = attendance \ ConflictRows(e, DateOf(now))
            /\ rendered' = (IF ConflictRows(e, DateOf(now)) # {} THEN "delete_today.success"
                                  ELSE "delete_today.info")
    /\ UNCHANGED <<employees, now, everListed, inflight, authvars>>

\* ---------------------------------------------------------------- employees page
\* A run of the Employees page with no form submitted: bootstrap DDL,
\* list_employees(q) and get_employee(selected_id), none inside a try block.
ViewEmployees(s, e, fault) ==
    /\ CanRun(s)
    /\ fault \in {"ok", "read"}
    /\ rendered' = (IF fault = "read" THEN "exception"
                          ELSE IF everListed = {} THEN "employees.info"
                          ELSE IF e \in everListed /\ get_employee(e) = {} THEN "edit.warning"
                          ELSE "page")
    /\ UNCHANGED <<dbvars, authvars>>

\* The Create employee form.
CreateEmployee(s, e, f, fault) ==
    /\ CanRun(s)
    /\ fault \in {"ok", "write"}
    /\ IF ~(e # "" /\ f.first_name # "" /\ f.last_name # "")
         THEN /\ rendered' = "create.error"
              /\ UNCHANGED <<employees, everListed>>
       ELSE IF fault = "write" \/ get_employee(e) # {}
         THEN /\ rendered' = "create.error"
              /\ UNCHANGED <<employees, everListed>>
       ELSE /\ employees' = employees \cup {EmployeeRow(e, Payload(f))}
            /\ everListed' = everListed \cup {e}
            /\ rendered' = "create.success"
    /\ UNCHANGED <<attendance, now, inflight, authvars>>

\* The edit form submitted for the selected employee e (Update, or Delete
\* with the confirmation box): the run first reads the list and
\* get_employee(selected_id), and only then reaches the button's handler.
\* (A failure of these reads is the "read" fault of the page runs above.)
EditSubmit(s, e, f, btn, confirm) ==
    /\ CanRun(s)
    /\ e \in everListed
    /\ IF get_employee(e) = {}
         THEN /\ rendered' = "edit.warning"
              /\ UNCHANGED inflight
       ELSE IF btn = "delete" /\ ~confirm
         THEN /\ rendered' = "delete_employee.warning"
              /\ UNCHANGED inflight
       ELSE /\ inflight' = [inflight EXCEPT ![s] =
                    [Idle EXCEPT !.op = btn, !.eid = e, !.form = f]]
            /\ UNCHANGED rendered
    /\ UNCHANGED <<employees, attendance, now, everListed, authvars>>

\* rows the UPDATE of update_employee matches
UpdateRows(e) == {r \in employees : r.employee_id = e}

\* update_employee(selected_id, payload) and the handler's message
UpdateWrite(s, fault) ==
    /\ authed[s]
    /\ inflight[s].op = "update"
    /\ fault \in {"ok", "write"}
    /\ IF fault = "write"
         THEN /\ rendered' = "update.error"
              /\ UNCHANGED employees
         ELSE /\ employees' =
                    (employees \ UpdateRows(inflight[s].eid)) \cup
                    { EmployeeRow(r.employee_id, Payload(inflight[s].form)) :
                        r \in UpdateRows(inflight[s].eid) }
              /\ rendered' = "update.success"
    /\ inflight' = [inflight EXCEPT ![s] = Idle]
    /\ UNCHANGED <<attendance, now, everListed, authvars>>

\* delete_employee(selected_id) and the handler's message
DeleteWrite(s, fault) ==
    /\ authed[s]
    /\ inflight[s].op = "delete"
    /\ fault \in {"ok", "write"}
    /\ ~PendingReference(s, inflight[s].eid)
    /\ IF fault = "write" \/ Referencing(inflight[s].eid) # {}
         THEN /\ rendered' = "delete_employee.error"
              /\ UNCHANGED employees
         ELSE /\ employees' = employees \ get_employee(inflight[s].eid)
              /\ rendered' = "delete_employee.success"
    /\ inflight' = [inflight EXCEPT ![s] = Idle]
    /\ UNCHANGED <<attendance, now, everListed, authvars>>

\* ================================================================ specification
\* Sessions that have passed the gate work on the two tables: the Attendance
\* page, and creation and deletion of the employee it selects.  (The edit
\* form's Update rewrites non-key columns of app.employees only, which no
\* attendance statement reads; it is exercised under SpecEmp.)
Init ==
    /\ secrets_auth = [has |-> {"password"},
                       tokens |-> {StrTok("tok1"), IntTok("7")},
                       token |-> StrTok("tok1"),
                       password_sha256 |-> _sha256("pw2"),
                       password |-> "pw1"]
    /\ authed = [s \in Sessions |-> TRUE]
    /\ method = [s \in Sessions |-> "password"]
    /\ url_token = [s \in Sessions |-> NoneParam]
    /\ pw_input = [s \in Sessions |-> "pw1"]
    /\ rendered = "page"
    /\ employees = {}
    /\ attendance = {}
    /\ now = 0
    /\ everListed = {}
    /\ inflight = [s \in Sessions |-> Idle]

Next ==
    \/ Tick
    \/ \E s \in Sessions, e \in AttendanceIds, fault \in Faults :
        \/ ViewAttendance(s, fault)
        \/ CheckIn(s, e, fault)
        \/ CheckOut(s, e, fault)
        \/ \E note \in Notes : SetStatusInsert(s, e, note, fault)
        \/ SetStatusUpdate(s, fault)
        \/ DeleteToday(s, e, fault)
        \/ \E f \in CreateForms : CreateEmployee(s, e, f, fault)
        \/ \E confirm \in BOOLEAN : EditSubmit(s, e, FormA, "delete", confirm)
        \/ DeleteWrite(s, fault)

Spec == Init /\ [][Next]_vars

\* The Employees (CRUD) page alone, over the whole roster and both edit forms.
NextEmp ==
    \E s \in Sessions, e \in EmployeeIds, fault \in Faults :
        \/ ViewEmployees(s, e, fault)
        \/ \E id \in EmployeeIds \cup {""}, f \in CreateForms : CreateEmployee(s, id, f, fault)
        \/ \E f \in EditForms, btn \in {"update", "delete"}, confirm \in BOOLEAN :
                EditSubmit(s, e, f, btn, confirm)
        \/ UpdateWrite(s, fault)
        \/ DeleteWrite(s, fault)

SpecEmp == Init /\ [][NextEmp]_vars

\* ================================================================ properties
Today == DateOf(now)

\* C1: for every employee E and day D the attendance store holds at most one
\* record for (E, D), whatever check-ins and insert-if-absent steps of
\* setStatus the sessions interleave.
C1_UniquePerDay ==
    \A r1 \in AllRows, r2 \in AllRows :
        (r1.employee_id = r2.employee_id /\ r1.date = r2.date) => r1 = r2

\* two sessions' setStatus transactions are open on the same (E, day) at
\* once, one of them holding the uncommitted insert of the key
C1_Witness ==
    \E s \in Sessions, o \in Sessions :
        /\ s # o
        /\ inflight[s].op = "set_status" /\ inflight[s].ins
        /\ inflight[o].op = "set_status" /\ ~inflight[o].ins
        /\ inflight[o].eid = inflight[s].eid /\ inflight[o].txdate = inflight[s].txdate

\* C2: once today's record has a non-null check-in time, no step changes that
\* timestamp while the record exists, and a checkIn that finds it (the store
\* not failing) changes no row and reports success.
C2_FirstCheckInWins ==
    [][ /\ \A r \in attendance : r.check_in_time # NullTime =>
              \A q \in attendance' :
                  q.log_id = r.log_id => q.check_in_time = r.check_in_time
        /\ \A s \in Sessions, e \in EmployeeIds :
              ( /\ \E r \in attendance : /\ r.employee_id = e /\ r.date = Today
                                         /\ r.check_in_time # NullTime
                /\ CheckIn(s, e, "ok") )
              => /\ rendered' = "check_in.success"
                 /\ attendance' = attendance
      ]_vars

\* a checkIn reported success on a day whose record was checked in and then
\* checked out at a later time: the check-in it found was already set
C2_Witness ==
    /\ rendered = "check_in.success"
    /\ \E r \in attendance :
          /\ r.date = Today
          /\ r.check_in_time # NullTime /\ r.check_out_time # NullTime
          /\ r.check_in_time < r.check_out_time

\* C3: checkOut (the store not failing) sets the check-out time to now and
\* reports "checked out" exactly when a record for (E, today) with a null
\* check-out time exists; otherwise it changes nothing and reports the
\* "no open check-in" warning.  It never changes a check-out time already set.
C3_CheckOutOnlyWhenOpen ==
    [][ \A s \in Sessions, e \in EmployeeIds :
          CheckOut(s, e, "ok") =>
            /\ IF \E r \in attendance : /\ r.employee_id = e /\ r.date = Today
                                        /\ r.check_out_time = NullTime
                 THEN /\ rendered' = "check_out.success"
                      /\ \E r \in attendance :
                            /\ r.employee_id = e /\ r.date = Today
                            /\ r.check_out_time = NullTime
                            /\ [r EXCEPT !.check_out_time = now] \in attendance'
                 ELSE /\ rendered' = "check_out.warning"
                      /\ attendance' = attendance
            /\ \A r \in attendance : r.check_out_time # NullTime => r \in attendance'
      ]_vars

\* a checkOut found today's record already closed at an earlier time
C3_Witness ==
    /\ rendered = "check_out.warning"
    /\ \E r \in attendance :
          /\ r.date = Today /\ r.check_out_time # NullTime /\ r.check_out_time < now

\* C4: an attendance record with a non-null check-out time also has a
\* non-null check-in time.
C4_CheckOutImpliesCheckIn ==
    \A r \in attendance : r.check_out_time # NullTime => r.check_in_time # NullTime

\* the value setStatus writes for a note
NoteValue(n) == IF n = "" THEN NullText ELSE n

ForeignKey ==
    \A r \in AllRows : \E emp \in employees : emp.employee_id = r.employee_id

\* C6: delete(employee_id) fails and leaves both tables unchanged when an
\* attendance record references the employee, and removes the employee row
\* otherwise; after every step every attendance record references an existing
\* employee.
C6_DeleteRestrict ==
    [][ /\ \A s \in Sessions :
              DeleteWrite(s, "ok") =>
                IF \E r \in attendance : r.employee_id = inflight[s].eid
                  THEN /\ rendered' = "delete_employee.error"
                       /\ employees' = employees /\ attendance' = attendance
                  ELSE /\ rendered' = "delete_employee.success"
                       /\ employees' =
                            {emp \in employees : emp.employee_id # inflight[s].eid}
                       /\ attendance' = attendance
        /\ ForeignKey'
      ]_vars

\* a delete of an employee failed while attendance rows reference the
\* employee, who is still on the roster
C6_Witness ==
    /\ rendered = "delete_employee.error"
    /\ \E r \in attendance : \E emp \in employees : emp.employee_id = r.employee_id

\* the configured allow-set, as the strings a URL can carry
ConfiguredTokens ==
    IF "tokens" \in secrets_auth.has THEN {x.repr : x \in secrets_auth.tokens}
    ELSE IF "token" \in secrets_auth.has THEN {secrets_auth.token.repr}
    ELSE {}

\* pw is the configured password (the hash takes precedence when both are set)
MatchesSecret(pw) ==
    \/ "password_sha256" \in secrets_auth.has /\ pw = "pw2"
    \/ /\ "password_sha256" \notin secrets_auth.has
       /\ "password" \in secrets_auth.has /\ pw = "pw1"

\* an authenticated session holds the credential that granted it
GrantedByCredential ==
    \A s \in Sessions :
        authed[s] =>
            \/ /\ method[s] = "token"
               /\ url_token[s] \notin {NoneParam, ""}
               /\ url_token[s] \in ConfiguredTokens
            \/ /\ method[s] = "password"
               /\ MatchesSecret(pw_input[s])

\* C7: a session is authenticated only through a URL token of the allow-set
\* (method token) or the configured password (method password); a wrong
\* password or a token outside the allow-set, and an empty or absent
\* credential, leave it unauthenticated with the failure shown.
C7_AuthOnlyByCredential ==
    [][ /\ GrantedByCredential'
        /\ \A s \in Sessions :
              /\ \A pw \in PasswordInputs :
                    (SignIn(s, pw) /\ ~MatchesSecret(pw)) =>
                        (~authed'[s] /\ rendered' = "sign_in.error")
              /\ \A tok \in TokenInputs :
                    (Open(s, tok) /\ (tok \in {NoneParam, ""} \/ tok \notin ConfiguredTokens)) =>
                        (~authed'[s] /\ rendered' = "gate.info")
      ]_vars

\* one session is in through an allow-listed token while another, opened
\* with a token outside the allow-set, has just had a password refused
C7_Witness ==
    \E s \in Sessions, o \in Sessions :
        /\ authed[s] /\ method[s] = "token"
        /\ ~authed[o] /\ url_token[o] = "bad" /\ pw_input[o] = "wrong"
        /\ rendered = "sign_in.error"

\* C8: after Sign out the session is unauthenticated.
C8_SignOutClears ==
    [][ \A s \in Sessions : SignOut(s) => ~authed'[s] ]_vars

\* C9: no store failure reaches the user as an uncaught exception.
C9_NoUncaughtStoreError == rendered # "exception"

\* C10: an update of an id that is absent at the time of the write changes no
\* row, and is not reported as a successful update.
C10_UpdateMissingIsNotFound ==
    [][ \A s \in Sessions :
          (UpdateWrite(s, "ok") /\ \A emp \in employees : emp.employee_id # inflight[s].eid)
            => (employees' = employees /\ rendered' # "update.success")
      ]_vars

====
